---- MODULE Spec2Model ----
(***************************************************************************)
(* A model of src/app.py: the NSE option-chain dashboard.  One cycle of    *)
(* main() fetches a raw option-chain document, parses it into a calls and  *)
(* a puts table, filters both to the top-K strikes by volume, computes two *)
(* OI-based put/call ratios and the Max Pain strike, appends the Top-10    *)
(* PCR to pcr_history.csv and renders the results.                         *)
(*                                                                         *)
(* Numbers.  Strikes are held as integer multiples of 1/PriceScale, so     *)
(* that fractional strikes (102.5) exist in the model.  A Python float     *)
(* that is the quotient of two integers is held as the reduced fraction    *)
(* num/den; the text of a float formatted to two decimals is held in       *)
(* hundredths.  The static texts of the page (title, help texts, sidebar)  *)
(* are left out.                                                           *)
(* Strikes are always numeric: a document without strikePrice is outside   *)
(* the model.                                                              *)
(***************************************************************************)
EXTENDS Integers, Sequences, FiniteSets, TLC

VARIABLES
    pc,        \* per session: where main() stands
    frame,     \* per session: the locals of main()
    screen,    \* per session: what the current run has put on the page
    attempts,  \* per session: calls of get_option_chain made by the current run
    file,      \* the contents of PCR_FILE, or NoFile
    cache,     \* the st.cache_data entry of get_option_chain
    now,       \* the clock read by datetime.utcnow()
    arg,       \* the argument of the function under test
    ret        \* its result

vars == <<pc, frame, screen, attempts, file, cache, now, arg, ret>>

-----------------------------------------------------------------------------
(* Bounds of the model.                                                     *)

PriceScale == 2
MaxOI == 2
MaxPcrRows == 3
MaxPainRows == 2

-----------------------------------------------------------------------------
(* Generic helpers.                                                         *)

Max(a, b) == IF a >= b THEN a ELSE b

RECURSIVE GCD(_, _)
GCD(a, b) == IF b = 0 THEN a ELSE GCD(b, a % b)

Range(s) == {s[i] : i \in DOMAIN s}

SeqsUpTo(S, n) == UNION {[1..k -> S] : k \in 0..n}

RECURSIVE SumBy(_, _)
\* df[col].sum()
SumBy(df, col) ==
    IF df = <<>> THEN 0 ELSE df[1][col] + SumBy(Tail(df), col)

RECURSIVE SortedSeq(_)
\* sorted(S) for a finite set of integers
SortedSeq(S) ==
    IF S = {} THEN <<>>
    ELSE LET m == CHOOSE x \in S : \A y \in S : x <= y
         IN  <<m>> \o SortedSeq(S \ {m})

IsPrefix(s, t) == Len(s) <= Len(t) /\ \A i \in 1..Len(s) : s[i] = t[i]

-----------------------------------------------------------------------------
(* Values.                                                                  *)

\* Python's None where a float is expected
None == [t |-> "None", num |-> 0, den |-> 1]

\* the float p / c, c > 0, as a reduced fraction
Float(p, c) ==
    LET g == GCD(p, c)
    IN  [t |-> "float", num |-> p \div g, den |-> c \div g]

\* NaN, and a number, in a float column such as LTP
NaN == [t |-> "nan", v |-> 0]
Num(n) == [t |-> "num", v |-> n]

\* One row of df_calls or df_puts (the dict of lines 48-58 after lines 75-80).
Row(strike, ltp, volume, oi, buy, sell, ratio) ==
    [Strike |-> strike, LTP |-> ltp, Volume |-> volume, OI |-> oi,
     TotalBuyQty |-> buy, TotalSellQty |-> sell, BuySellRatio |-> ratio]

-----------------------------------------------------------------------------
(* compute_pcr_oi, lines 168-175.                                           *)

\* compute_pcr_oi without the guard of lines 173-174: a zero call sum divides by 1
compute_pcr_oi_no_guard(calls_df, puts_df) ==
    LET calls_oi == IF calls_df # <<>> THEN SumBy(calls_df, "OI") ELSE 0
        puts_oi  == IF puts_df # <<>> THEN SumBy(puts_df, "OI") ELSE 0
    IN  IF calls_oi = 0 /\ puts_oi = 0 THEN None
        ELSE Float(puts_oi, Max(calls_oi, 1))

compute_pcr_oi(calls_df, puts_df) ==
    LET calls_oi == IF calls_df # <<>> THEN SumBy(calls_df, "OI") ELSE 0
        puts_oi  == IF puts_df # <<>> THEN SumBy(puts_df, "OI") ELSE 0
    IN  IF calls_oi = 0 /\ puts_oi = 0 THEN None
        ELSE IF calls_oi = 0 THEN None
        ELSE Float(puts_oi, calls_oi)

-----------------------------------------------------------------------------
(* calculate_max_pain, lines 84-96.                                         *)

\* int(x) of a non-negative number held in 1/PriceScale units, in the same units
IntTrunc(x) == (x \div PriceScale) * PriceScale

RECURSIVE PainSum(_, _, _)
\* (np.maximum(sign * (df['Strike'] - p), 0) * df['Volume']).sum()
PainSum(df, p, sign) ==
    IF df = <<>> THEN 0
    ELSE Max(sign * (df[1].Strike - p), 0) * df[1].Volume
         + PainSum(Tail(df), p, sign)

\* lines 86-91: one {'Strike': p, 'Pain': ...} per candidate, ascending
pains(df_calls, df_puts) ==
    LET strikes == SortedSeq({r.Strike : r \in Range(df_calls)}
                             \cup {r.Strike : r \in Range(df_puts)})
    IN  [i \in DOMAIN strikes |->
            [Strike |-> strikes[i],
             Pain   |-> PainSum(df_calls, strikes[i], 1)
                        + PainSum(df_puts, strikes[i], -1)]]

\* pain_df['Pain'].idxmin(): the first position of the minimum
idxmin(pain_df) ==
    CHOOSE i \in DOMAIN pain_df :
        /\ \A j \in DOMAIN pain_df : pain_df[i].Pain <= pain_df[j].Pain
        /\ \A j \in 1..(i - 1) : pain_df[j].Pain > pain_df[i].Pain

NoMaxPain == [t |-> "None", Strike |-> 0, Pain |-> 0]

calculate_max_pain(df_calls, df_puts) ==
    LET pain_df == pains(df_calls, df_puts)
    IN  IF pain_df = <<>> THEN NoMaxPain
        ELSE LET max_row == pain_df[idxmin(pain_df)]
             IN  [t |-> "ok", Strike |-> IntTrunc(max_row.Strike),
                  Pain |-> max_row.Pain]

-----------------------------------------------------------------------------
(* The raw JSON document.  A value is a record [t, v]: an integer, null, a  *)
(* string that is no number, or Missing when the key is not in its dict.    *)
(* A dict holds every key the code reads, Missing where it has none.        *)

IntVal(n) == [t |-> "int", v |-> n]
Null == [t |-> "null", v |-> 0]
Str == [t |-> "str", v |-> 0]
Missing == [t |-> "missing", v |-> 0]

\* a CE or PE sub-object; t is "dict", "null", or "missing"
Side(t, ltp, volume, oi, oiQty, buy, sell) ==
    [t |-> t, lastPrice |-> ltp, totalTradedVolume |-> volume,
     openInterest |-> oi, openInterestQty |-> oiQty,
     totalBuyQuantity |-> buy, totalSellQuantity |-> sell]

EmptyDict == Side("dict", Missing, Missing, Missing, Missing, Missing, Missing)
NoSide == Side("missing", Missing, Missing, Missing, Missing, Missing, Missing)
NullSide == Side("null", Missing, Missing, Missing, Missing, Missing, Missing)

SideKeys == {"lastPrice", "totalTradedVolume", "openInterest", "openInterestQty",
             "totalBuyQuantity", "totalSellQuantity"}

Entry(strike, ce, pe) == [strikePrice |-> strike, CE |-> ce, PE |-> pe]

\* the value at "data": t is "list", "int" (a number, no collection), "null"
\* or "missing"
DataList(items) == [t |-> "list", items |-> items]
DataOther(t) == [t |-> t, items |-> <<>>]

\* raw_json: filtered.t is "dict", "null" or "missing"; underlyingValue is
\* records.underlyingValue, Missing when the document has none
Doc(ft, fdata, data) ==
    [filtered |-> [t |-> ft, data |-> fdata], data |-> data, underlyingValue |-> Missing]

-----------------------------------------------------------------------------
(* parse_into_dfs, lines 35-81.                                             *)

\* d.get(key, default)
Get(d, key, default) == IF d[key].t = "missing" THEN default ELSE d[key]

\* bool(d) of a dict
Truthy(d) == \E k \in SideKeys : d[k].t # "missing"

\* itm.get("CE", {}) or {}
OrEmpty(side) ==
    IF side.t = "dict" /\ Truthy(side) THEN side ELSE EmptyDict

\* lines 45-46
ReadOI(ce) ==
    IF Truthy(ce)
    THEN Get(ce, "openInterest", Get(ce, "openInterestQty", IntVal(0)))
    ELSE IntVal(0)

RECURSIVE IsPow2(_)
IsPow2(n) == n = 1 \/ (n > 1 /\ n % 2 = 0 /\ IsPow2(n \div 2))

\* round(b / s, 2) and f"{b / s:.2f}" in hundredths, for b >= 0, s > 0.  Both round
\* the double nearest to b/s to the nearest hundredth; an exact tie, which
\* needs b/s to be a binary fraction, goes to the even hundredth.  A tie of
\* b/s that is no binary fraction is decided by the sign of the double's
\* error, which is taken to be upward here.
Round2(b, s) ==
    LET q == (100 * b) \div s
        r == (100 * b) % s
    IN  IF 2 * r < s THEN q
        ELSE IF 2 * r > s THEN q + 1
        ELSE IF IsPow2(s \div GCD(b, s)) /\ q % 2 = 0 THEN q
        ELSE q + 1

\* lines 55-57 and 66-68: whether computing the ratio raises TypeError
RatioRaises(ce) ==
    LET sell == Get(ce, "totalSellQuantity", IntVal(0))
    IN  \/ sell.t # "int"
        \/ sell.v > 0 /\ Get(ce, "totalBuyQuantity", IntVal(0)).t # "int"

\* the ratio guarded by the default denominator of line 56 instead of line 57
BuySellRatio_default_visible(ce) ==
    LET buy == Get(ce, "totalBuyQuantity", IntVal(0))
        den == Get(ce, "totalSellQuantity", IntVal(1))
    IN  IF den.v > 0 THEN Float(Round2(buy.v, den.v), 100) ELSE None

\* lines 55-57 and 66-68, when they do not raise
BuySellRatio(ce) ==
    IF Get(ce, "totalSellQuantity", IntVal(0)).v > 0
    THEN Float(Round2(Get(ce, "totalBuyQuantity", IntVal(0)).v,
                      Get(ce, "totalSellQuantity", IntVal(1)).v), 100)
    ELSE None

\* pd.to_numeric(col, errors="coerce").fillna(0).astype(int)
ToCount(x) == IF x.t = "int" THEN x.v ELSE 0

\* pd.to_numeric(col, errors="coerce")
ToPrice(x) == IF x.t = "int" THEN Num(x.v) ELSE NaN

\* lines 48-58 (59-69) followed by lines 75-80 for one side of one entry
SideRow(strike, ce) ==
    Row(strike.v,
        ToPrice(Get(ce, "lastPrice", NaN)),
        ToCount(Get(ce, "totalTradedVolume", IntVal(0))),
        ToCount(ReadOI(ce)),
        ToCount(Get(ce, "totalBuyQuantity", IntVal(0))),
        ToCount(Get(ce, "totalSellQuantity", IntVal(0))),
        BuySellRatio(ce))

Raised == [raised |-> TRUE, calls |-> <<>>, puts |-> <<>>]
Parsed(calls, puts) == [raised |-> FALSE, calls |-> calls, puts |-> puts]

\* line 37: raw_json.get("filtered", {}).get("data") or raw_json.get("data")
SelectData(raw_json) ==
    LET a == IF raw_json.filtered.t = "dict" THEN raw_json.filtered.data
             ELSE DataOther("missing")
    IN  IF (a.t = "list" /\ a.items # <<>>) \/ a.t = "int" THEN a
        ELSE raw_json.data

parse_into_dfs(raw_json) ==
    IF raw_json.filtered.t = "null" THEN Raised       \* None.get: AttributeError
    ELSE
      LET data == SelectData(raw_json)
      IN  IF data.t \in {"missing", "null"} THEN Parsed(<<>>, <<>>)
          ELSE IF data.t = "int" THEN Raised          \* not iterable: TypeError
          ELSE
            LET items == data.items
            IN  IF \E i \in DOMAIN items :
                      \/ RatioRaises(OrEmpty(items[i].CE))
                      \/ RatioRaises(OrEmpty(items[i].PE))
                THEN Raised
                ELSE Parsed(
                       [i \in DOMAIN items |->
                          SideRow(items[i].strikePrice, OrEmpty(items[i].CE))],
                       [i \in DOMAIN items |->
                          SideRow(items[i].strikePrice, OrEmpty(items[i].PE))])

-----------------------------------------------------------------------------
(* The strike filter of main(), lines 138-162.                              *)

Top20 == 20
Top10 == 10
Top5 == 5

\* the position of the first row holding the largest value of col
FirstMax(df, col) ==
    CHOOSE i \in DOMAIN df :
        /\ \A j \in DOMAIN df : df[j][col] <= df[i][col]
        /\ \A j \in 1..(i - 1) : df[j][col] < df[i][col]

Without(df, i) == SubSeq(df, 1, i - 1) \o SubSeq(df, i + 1, Len(df))

RECURSIVE nlargest(_, _, _)
\* df.nlargest(n, col): the n rows with the largest values, descending, equal
\* values in their original order (keep="first"); all rows when n exceeds them
nlargest(df, n, col) ==
    IF n = 0 \/ df = <<>> THEN <<>>
    ELSE LET i == FirstMax(df, col)
         IN  <<df[i]>> \o nlargest(Without(df, i), n - 1, col)

Strikes(df) == {r.Strike : r \in Range(df)}

\* df[df["Strike"].isin(union)].reset_index(drop=True)
isin(df, union) == SelectSeq(df, LAMBDA r : r.Strike \in Range(union))

\* lines 139-144; raises: whether the ranking raises
top20_union(df_calls, df_puts, raises) ==
    IF ~raises
    THEN SortedSeq(Strikes(nlargest(df_calls, Top20, "Volume"))
                   \cup Strikes(nlargest(df_puts, Top20, "Volume")))
    ELSE SortedSeq(Strikes(df_calls) \cup Strikes(df_puts))

\* lines 154-159 ranking by OI, the column the PCR is computed from
top10_union_by_OI(df_calls, df_puts, top20, raises) ==
    IF ~raises
    THEN SortedSeq(Strikes(nlargest(df_calls, Top10, "OI"))
                   \cup Strikes(nlargest(df_puts, Top10, "OI")))
    ELSE IF Len(top20) >= Top10 THEN SubSeq(top20, 1, Top10) ELSE top20

\* lines 154-159; top20 is top20_union
top10_union(df_calls, df_puts, top20, raises) ==
    IF ~raises
    THEN SortedSeq(Strikes(nlargest(df_calls, Top10, "Volume"))
                   \cup Strikes(nlargest(df_puts, Top10, "Volume")))
    ELSE IF Len(top20) >= Top10 THEN SubSeq(top20, 1, Top10) ELSE top20

-----------------------------------------------------------------------------
(* The history file, lines 180-190.  A file is a sequence of lines, each a  *)
(* sequence of cells; the first line names the columns.                     *)

NoFile == [exists |-> FALSE, lines |-> <<>>]
File(lines) == [exists |-> TRUE, lines |-> lines]
NoCell == [text |-> "", at |-> 0, num |-> 0, den |-> 1]
Name(col) == [text |-> col, at |-> 0, num |-> 0, den |-> 1]
Columns == <<Name("timestamp"), Name("pcr_top10")>>

\* datetime.utcnow().isoformat() at clock reading n
isoformat(n) == [text |-> "iso", at |-> n, num |-> 0, den |-> 1]

\* the text to_csv writes for a float: its shortest repr
repr(x) ==
    IF x.t = "float" THEN [text |-> "repr", at |-> 0, num |-> x.num, den |-> x.den]
    ELSE NoCell

\* the float read_csv reads from a cell
to_float(cell) ==
    IF cell.text = "repr" THEN [t |-> "float", num |-> cell.num, den |-> cell.den]
    ELSE None

\* to_csv(PCR_FILE, index=False, header=False)
to_csv_no_header(df) ==
    [i \in 1..Len(df) |-> <<df[i].timestamp, repr(df[i].pcr_top10)>>]

\* df_hist.to_csv(PCR_FILE, index=False)
to_csv(df) ==
    <<Columns>> \o [i \in 1..Len(df) |-> <<df[i].timestamp, repr(df[i].pcr_top10)>>]

\* the cell of a line under the column named col, NoCell when no column is
CellAt(header, line, col) ==
    IF \E k \in DOMAIN header : header[k] = Name(col) /\ k \in DOMAIN line
    THEN line[CHOOSE k \in DOMAIN header : header[k] = Name(col) /\ k \in DOMAIN line]
    ELSE NoCell

\* pd.read_csv(PCR_FILE), the columns the code uses
read_csv(lines) ==
    [i \in 1..(Len(lines) - 1) |->
        [timestamp |-> CellAt(lines[1], lines[i + 1], "timestamp"),
         pcr_top10 |-> to_float(CellAt(lines[1], lines[i + 1], "pcr_top10"))]]

\* os.path.exists(PCR_FILE)
exists(f) == f.exists

\* lines 181-190 without the read of line 184
persist_forgets_history(f, pcr_top10, n) ==
    IF pcr_top10 # None
    THEN <<[timestamp |-> isoformat(n), pcr_top10 |-> pcr_top10]>>
    ELSE IF exists(f) THEN read_csv(f.lines) ELSE <<>>

\* lines 181-187 and 190: df_hist, from the file f, at clock reading n
persist(f, pcr_top10, n) ==
    IF pcr_top10 # None
    THEN LET entry == [timestamp |-> isoformat(n), pcr_top10 |-> pcr_top10]
         IN  IF exists(f) THEN read_csv(f.lines) \o <<entry>> ELSE <<entry>>
    ELSE IF exists(f) THEN read_csv(f.lines) ELSE <<>>

-----------------------------------------------------------------------------
(* What main() puts on the page.                                            *)

Error(text) == [w |-> "error", text |-> text]
Warning(text) == [w |-> "warning", text |-> text]
Exception == [w |-> "exception", text |-> "uncaught"]
Subheader(text) == [w |-> "subheader", text |-> text]
Caption(text) == [w |-> "caption", text |-> text]
Metric(label, value) == [w |-> "metric", text |-> label, value |-> value]
Dataframe(df) == [w |-> "dataframe", text |-> "", rows |-> df]
Pyplot(ys) == [w |-> "pyplot", text |-> "Top-10 PCR Trend (Persistent)", ys |-> ys]

\* the metric texts: "N/A", f"{x:.2f}" in hundredths, and a plain integer
NA == [text |-> "N/A", n |-> 0]
Fmt2(x) == [text |-> ".2f", n |-> Round2(x.num, x.den)]
Plain(n) == [text |-> "int", n |-> n]

NoSymbolMsg == "Please enter a symbol to proceed."
FetchFailedMsg == "Failed to fetch data for symbol"
NoDataMsg == "No data available."
NoTop20Msg == "After filtering to top-20 strikes there is no data to display."
NoTop10Msg == "Top-10 strike set is empty"

NoFrame ==
    [symbol |-> "", fetched |-> "none", raw |-> Doc("missing", DataOther("missing"), DataOther("missing")),
     df_calls_20 |-> <<>>, df_puts_20 |-> <<>>, pcr_top20 |-> None,
     pcr_top10 |-> None, df_hist |-> <<>>]

\* main() returns (or dies) before line 180
Stop(f, page, n) == [pc |-> "done", frame |-> f, screen |-> page, attempts |-> n]

\* line 128-130
Underlying(raw) ==
    IF raw.underlyingValue.t # "missing" /\ raw.underlyingValue.t # "null"
    THEN <<Subheader("Underlying Price")>> ELSE <<>>

-----------------------------------------------------------------------------
(* main(), lines 99-237, in the three parts a history update divides it in. *)

\* lines 109-178 without the returns of lines 136 and 151
main_until_pcr_ignores_empty(symbol, fetched, raw) ==
    IF symbol = "" THEN Stop(NoFrame, <<Error(NoSymbolMsg)>>, 0)
    ELSE IF fetched = "raised"
    THEN Stop([NoFrame EXCEPT !.symbol = symbol, !.fetched = fetched],
              <<Error(FetchFailedMsg)>>, 1)
    ELSE
      LET f0 == [NoFrame EXCEPT !.symbol = symbol, !.fetched = fetched, !.raw = raw]
          parsed == parse_into_dfs(raw)
      IN  IF parsed.raised THEN Stop(f0, Underlying(raw) \o <<Exception>>, 1)
          ELSE
            LET top20 == top20_union(parsed.calls, parsed.puts, FALSE)
                df_calls_20 == isin(parsed.calls, top20)
                df_puts_20 == isin(parsed.puts, top20)
                top10 == top10_union(parsed.calls, parsed.puts, top20, FALSE)
                df_calls_10 == isin(parsed.calls, top10)
                df_puts_10 == isin(parsed.puts, top10)
            IN  [pc |-> "persist",
                 frame |-> [f0 EXCEPT
                              !.df_calls_20 = df_calls_20,
                              !.df_puts_20 = df_puts_20,
                              !.pcr_top20 = compute_pcr_oi(df_calls_20, df_puts_20),
                              !.pcr_top10 = compute_pcr_oi(df_calls_10, df_puts_10)],
                 screen |-> Underlying(raw) \o
                            (IF parsed.calls = <<>> \/ parsed.puts = <<>>
                             THEN <<Error(NoDataMsg)>> ELSE <<>>),
                 attempts |-> 1]

\* lines 109-178: the symbol chosen in the sidebar, whether get_option_chain
\* raised, and what it returned
main_until_pcr(symbol, fetched, raw) ==
    IF symbol = "" THEN Stop(NoFrame, <<Error(NoSymbolMsg)>>, 0)
    ELSE IF fetched = "raised"
    THEN Stop([NoFrame EXCEPT !.symbol = symbol, !.fetched = fetched],
              <<Error(FetchFailedMsg)>>, 1)
    ELSE
      LET f0 == [NoFrame EXCEPT !.symbol = symbol, !.fetched = fetched, !.raw = raw]
          parsed == parse_into_dfs(raw)
      IN  IF parsed.raised THEN Stop(f0, Underlying(raw) \o <<Exception>>, 1)
          ELSE IF parsed.calls = <<>> \/ parsed.puts = <<>>
          THEN Stop(f0, Underlying(raw) \o <<Error(NoDataMsg)>>, 1)
          ELSE
            LET top20 == top20_union(parsed.calls, parsed.puts, FALSE)
                df_calls_20 == isin(parsed.calls, top20)
                df_puts_20 == isin(parsed.puts, top20)
            IN  IF df_calls_20 = <<>> \/ df_puts_20 = <<>>
                THEN Stop(f0, Underlying(raw) \o <<Error(NoTop20Msg)>>, 1)
                ELSE
                  LET top10 == top10_union(parsed.calls, parsed.puts, top20, FALSE)
                      df_calls_10 == isin(parsed.calls, top10)
                      df_puts_10 == isin(parsed.puts, top10)
                  IN  [pc |-> "persist",
                       frame |-> [f0 EXCEPT
                                    !.df_calls_20 = df_calls_20,
                                    !.df_puts_20 = df_puts_20,
                                    !.pcr_top20 = compute_pcr_oi(df_calls_20, df_puts_20),
                                    !.pcr_top10 = compute_pcr_oi(df_calls_10, df_puts_10)],
                       screen |-> Underlying(raw) \o
                                  (IF df_calls_10 = <<>> \/ df_puts_10 = <<>>
                                   THEN <<Warning(NoTop10Msg)>> ELSE <<>>),
                       attempts |-> 1]

\* lines 206-212
TopTenCaption(pcr_top10) ==
    IF pcr_top10 = None THEN <<>>
    ELSE IF pcr_top10.num < pcr_top10.den THEN <<Caption("Top-10 PCR < 1")>>
    ELSE IF pcr_top10.num > pcr_top10.den THEN <<Caption("Top-10 PCR > 1")>>
    ELSE <<Caption("Top-10 PCR = 1")>>

\* lines 215-217
MaxPainMetric(f) ==
    LET mp == calculate_max_pain(f.df_calls_20, f.df_puts_20)
    IN  IF mp.t # "None" THEN <<Metric("Max Pain Strike", Plain(mp.Strike))>> ELSE <<>>

\* lines 219-237
TablesAndChart(f) ==
    <<Subheader("Top 5 Call Strikes by Volume"),
      Dataframe(nlargest(f.df_calls_20, Top5, "Volume")),
      Subheader("Top 5 Put Strikes by Volume"),
      Dataframe(nlargest(f.df_puts_20, Top5, "Volume"))>>
    \o (IF f.df_hist # <<>>
        THEN <<Pyplot([i \in DOMAIN f.df_hist |-> f.df_hist[i].pcr_top10])>>
        ELSE <<>>)

\* lines 192-237 without the None tests of lines 194 and 200: formatting None raises
main_render_formats_none(f) ==
    IF f.pcr_top20 = None THEN <<Exception>>
    ELSE <<Metric("PCR (Top-20)", Fmt2(f.pcr_top20))>> \o
         (IF f.pcr_top10 = None THEN <<Exception>>
          ELSE <<Metric("PCR (Top-10)", Fmt2(f.pcr_top10))>>
               \o TopTenCaption(f.pcr_top10) \o MaxPainMetric(f) \o TablesAndChart(f))

\* lines 192-237: what the rest of main() adds to the page
main_render(f) ==
    <<Metric("PCR (Top-20)", IF f.pcr_top20 = None THEN NA ELSE Fmt2(f.pcr_top20)),
      Metric("PCR (Top-10)", IF f.pcr_top10 = None THEN NA ELSE Fmt2(f.pcr_top10))>>
    \o TopTenCaption(f.pcr_top10) \o MaxPainMetric(f) \o TablesAndChart(f)

-----------------------------------------------------------------------------
(* The state of the dashboard when a function is checked on its own.        *)

Sessions == {1, 2}
NoDoc == [t |-> "none"]
Pending == [t |-> "pending"]

Idle ==
    /\ pc = [s \in Sessions |-> "idle"]
    /\ frame = [s \in Sessions |-> NoFrame]
    /\ screen = [s \in Sessions |-> <<>>]
    /\ attempts = [s \in Sessions |-> 0]
    /\ file = NoFile
    /\ cache = NoDoc
    /\ now = 0

app == <<pc, frame, screen, attempts, file, cache, now>>

-----------------------------------------------------------------------------
(* compute_pcr_oi on its own.                                               *)

OIRow(oi) == Row(100 * PriceScale, NaN, 0, oi, 0, 0, None)
PcrFrames == SeqsUpTo({OIRow(oi) : oi \in 0..MaxOI}, MaxPcrRows)

InitPcr ==
    /\ Idle
    /\ arg \in [calls : PcrFrames, puts : PcrFrames]
    /\ ret = Pending

CallPcr ==
    /\ ret = Pending
    /\ ret' = compute_pcr_oi(arg.calls, arg.puts)
    /\ UNCHANGED <<app, arg>>

SpecPcr == InitPcr /\ [][CallPcr]_vars

\* C1: compute_pcr_oi returns None exactly when the call OI sums to 0, and
\* otherwise the float sumPuts / sumCalls, positive when both sums are.
C1_PcrUnavailableIffNoCallOI ==
    ret # Pending =>
        LET sumCalls == SumBy(arg.calls, "OI")
            sumPuts  == SumBy(arg.puts, "OI")
        IN  /\ (ret = None) <=> (sumCalls = 0)
            /\ sumCalls # 0 =>
                  /\ ret.t = "float" /\ ret.den > 0
                  /\ ret.num * sumCalls = sumPuts * ret.den
                  /\ GCD(ret.num, ret.den) = 1
            /\ (sumCalls > 0 /\ sumPuts > 0) => ret.num > 0

C1_Witness ==
    /\ ret = None
    /\ SumBy(arg.calls, "OI") = 0
    /\ SumBy(arg.puts, "OI") > 0

-----------------------------------------------------------------------------
(* calculate_max_pain on its own.                                           *)

StrikeValues == {100 * PriceScale, 102 * PriceScale + 1, 110 * PriceScale}
PainVolumes == {0, 30, 40, 50, 60}
PainRow(strike, volume) == Row(strike, NaN, volume, 0, 0, 0, None)
PainFrames ==
    SeqsUpTo({PainRow(k, v) : k \in StrikeValues, v \in PainVolumes}, MaxPainRows)

InitMaxPain ==
    /\ Idle
    /\ arg \in [calls : PainFrames, puts : PainFrames]
    /\ ret = Pending

CallMaxPain ==
    /\ ret = Pending
    /\ ret' = calculate_max_pain(arg.calls, arg.puts)
    /\ UNCHANGED <<app, arg>>

SpecMaxPain == InitMaxPain /\ [][CallMaxPain]_vars

StrikeUnion(calls, puts) ==
    {r.Strike : r \in Range(calls)} \cup {r.Strike : r \in Range(puts)}

totalPain(calls, puts, p) == PainSum(calls, p, 1) + PainSum(puts, p, -1)

\* C2: calculate_max_pain returns the lowest strike of the union that
\* minimises totalPain, with its pain; (None, None) when the union is empty.
C2_MaxPainIsLowestMinimiser ==
    ret # Pending =>
        LET U == StrikeUnion(arg.calls, arg.puts)
        IN  IF U = {} THEN ret = NoMaxPain
            ELSE /\ ret.t = "ok"
                 /\ ret.Strike \in U
                 /\ ret.Pain = totalPain(arg.calls, arg.puts, ret.Strike)
                 /\ \A p \in U :
                        /\ ret.Pain <= totalPain(arg.calls, arg.puts, p)
                        /\ totalPain(arg.calls, arg.puts, p) = ret.Pain
                               => ret.Strike <= p

\* The same statement over whole-number strikes only.
C2_WholeStrikes ==
    (ret # Pending /\ \A k \in StrikeUnion(arg.calls, arg.puts) : k % PriceScale = 0)
        => C2_MaxPainIsLowestMinimiser

\* The example of the claim: strike 100 with pain 300.
C2_Example ==
    (/\ ret # Pending
     /\ arg.calls = <<PainRow(100 * PriceScale, 50), PainRow(110 * PriceScale, 30)>>
     /\ arg.puts = <<PainRow(100 * PriceScale, 40), PainRow(110 * PriceScale, 60)>>)
        => ret = [t |-> "ok", Strike |-> 100 * PriceScale, Pain |-> 300 * PriceScale]

-----------------------------------------------------------------------------
(* parse_into_dfs on its own.                                               *)

QtyValues == {0, 1, 3, 8}
FieldValues == {Missing, Null, Str} \cup {IntVal(n) : n \in QtyValues}

\* every sub-object the entries of the documents below are built from
SideChoices ==
    {NoSide, NullSide, EmptyDict} \cup
    {Side("dict", o, o, oi, oiQty, buy, sell) :
        o \in {Missing, Null, Str, IntVal(2)},
        oi \in {Missing, Null, IntVal(2)},
        oiQty \in {Missing, IntVal(5)},
        buy \in FieldValues, sell \in FieldValues}

PlainSides ==
    {NoSide,
     Side("dict", IntVal(7), IntVal(4), IntVal(2), Missing, IntVal(3), IntVal(0)),
     Side("dict", IntVal(7), IntVal(4), Missing, IntVal(5), IntVal(1), IntVal(8))}

PlainSide == Side("dict", IntVal(7), IntVal(4), IntVal(2), Missing, IntVal(3), IntVal(8))
ListA == <<Entry(IntVal(100 * PriceScale), PlainSide, NoSide)>>
ListB == <<Entry(IntVal(110 * PriceScale), PlainSide, PlainSide),
           Entry(IntVal(100 * PriceScale), NoSide, PlainSide)>>

DataValues ==
    {DataOther("missing"), DataOther("null"), DataOther("int"),
     DataList(<<>>), DataList(ListA), DataList(ListB)}

\* every layout of the two paths, and every entry under the first path
ParseDocs ==
    {Doc("dict", fdata, data) : fdata \in DataValues, data \in DataValues}
    \cup
    {Doc(ft, DataOther("missing"), data) : ft \in {"missing", "null"}, data \in DataValues}
    \cup
    {Doc("dict", DataList(<<Entry(IntVal(100 * PriceScale), ce, pe)>>), DataOther("missing")) :
        ce \in SideChoices, pe \in PlainSides}
    \cup
    {Doc("dict", DataList(<<Entry(IntVal(100 * PriceScale), ce, pe)>>), DataOther("missing")) :
        ce \in PlainSides, pe \in SideChoices}

InitParse ==
    /\ Idle
    /\ arg \in ParseDocs
    /\ ret = Pending

CallParse ==
    /\ ret = Pending
    /\ ret' = parse_into_dfs(arg)
    /\ UNCHANGED <<app, arg>>

SpecParse == InitParse /\ [][CallParse]_vars

\* what the document holds at a key of one side of an entry
RawField(side, key) == IF side.t = "dict" THEN side[key] ELSE Missing

\* the open interest the document holds for one side
RawOI(side) ==
    IF RawField(side, "openInterest").t # "missing"
    THEN RawField(side, "openInterest")
    ELSE RawField(side, "openInterestQty")

CountOf(x) == IF x.t = "int" THEN x.v ELSE 0

CoercedRow(row, side) ==
    /\ row.Volume = CountOf(RawField(side, "totalTradedVolume"))
    /\ row.OI = CountOf(RawOI(side))
    /\ row.TotalBuyQty = CountOf(RawField(side, "totalBuyQuantity"))
    /\ row.TotalSellQty = CountOf(RawField(side, "totalSellQuantity"))
    /\ row.LTP = IF RawField(side, "lastPrice").t = "int"
                 THEN Num(RawField(side, "lastPrice").v) ELSE NaN

\* C5: whatever the numeric fields of the entries hold, parse_into_dfs does
\* not raise; counts that cannot be coerced come out 0 and LTP absent.
C5_ParseNeverRaises ==
    (/\ ret # Pending
     /\ arg.filtered.t = "dict" /\ arg.filtered.data.t = "list"
     /\ arg.filtered.data.items # <<>>)
    => LET items == arg.filtered.data.items
       IN  /\ ~ret.raised
           /\ Len(ret.calls) = Len(items) /\ Len(ret.puts) = Len(items)
           /\ \A i \in DOMAIN items :
                 /\ CoercedRow(ret.calls[i], items[i].CE)
                 /\ CoercedRow(ret.puts[i], items[i].PE)

\* The same over the documents parse_into_dfs does not raise on.
C5_CoercedWhenParsed ==
    (/\ ret # Pending /\ ~ret.raised
     /\ arg.filtered.t = "dict" /\ arg.filtered.data.t = "list"
     /\ arg.filtered.data.items # <<>>)
    => LET items == arg.filtered.data.items
       IN  /\ Len(ret.calls) = Len(items) /\ Len(ret.puts) = Len(items)
           /\ \A i \in DOMAIN items :
                 /\ CoercedRow(ret.calls[i], items[i].CE)
                 /\ CoercedRow(ret.puts[i], items[i].PE)

RowStrikes(df) == [i \in DOMAIN df |-> df[i].Strike]
ItemStrikes(items) == [i \in DOMAIN items |-> items[i].strikePrice.v]

\* C6: the entries come from filtered.data whenever that path holds a
\* collection, from the top-level data only when it does not, and when
\* neither holds a collection the result is two empty tables and no error.
C6_FilteredDataFirst ==
    ret # Pending =>
        LET hasFiltered == arg.filtered.t = "dict" /\ arg.filtered.data.t = "list"
            hasData == arg.data.t = "list"
            items == IF hasFiltered THEN arg.filtered.data.items
                     ELSE IF hasData THEN arg.data.items
                     ELSE <<>>
        IN  /\ ~(hasFiltered \/ hasData) => ~ret.raised
            /\ ~ret.raised =>
                  /\ RowStrikes(ret.calls) = ItemStrikes(items)
                  /\ RowStrikes(ret.puts) = ItemStrikes(items)

\* The ratio of a produced row is the quotient to the nearest hundredth.
NearestHundredth(ratio, buy, sell) ==
    /\ ratio.t = "float"
    /\ 100 % ratio.den = 0
    /\ LET c == ratio.num * (100 \div ratio.den)
           d == 100 * buy - c * sell
       IN  2 * Max(d, -d) <= sell

RatioAsClaimed(row, side) ==
    LET sell == RawField(side, "totalSellQuantity")
        buy == RawField(side, "totalBuyQuantity")
    IN  IF sell.t = "int" /\ sell.v > 0
        THEN NearestHundredth(row.BuySellRatio, CountOf(buy), sell.v)
        ELSE row.BuySellRatio = None

\* C7: in every record parse_into_dfs produces, Buy/Sell Ratio is None when
\* the side's totalSellQuantity is 0 or the side is missing, and otherwise
\* totalBuyQuantity / totalSellQuantity rounded to two decimals.
C7_RatioAbsentOrRounded ==
    (ret # Pending /\ ~ret.raised /\ SelectData(arg).t = "list")
    => LET items == SelectData(arg).items
       IN  \A i \in DOMAIN items :
              /\ i \in DOMAIN ret.calls /\ i \in DOMAIN ret.puts
              /\ RatioAsClaimed(ret.calls[i], items[i].CE)
              /\ RatioAsClaimed(ret.puts[i], items[i].PE)

C7_Witness ==
    /\ ret # Pending /\ ~ret.raised
    /\ Len(ret.calls) = 1
    /\ arg.filtered.data.items[1].CE.t = "dict"
    /\ arg.filtered.data.items[1].CE.totalBuyQuantity = IntVal(3)
    /\ arg.filtered.data.items[1].CE.totalSellQuantity = IntVal(8)
    /\ ret.calls[1].BuySellRatio = Float(38, 100)
    /\ arg.filtered.data.items[1].PE.totalSellQuantity = IntVal(0)
    /\ ret.puts[1].TotalBuyQty = 3
    /\ ret.puts[1].BuySellRatio = None

-----------------------------------------------------------------------------
(* The strike filter on its own.                                            *)

MaxFilterRows == 22
VolumeModulus == 7
RepeatAfter == 12

\* n rows; the strike repeats after rep rows; Volume and OI follow i
PatternFrame(n, rep, a, b) ==
    [i \in 1..n |->
        Row((100 + ((i - 1) % rep)) * PriceScale, NaN,
            (a * i + b) % VolumeModulus, i, 0, 0, None)]

FilterInputs ==
    [n : 1..MaxFilterRows, rep : {RepeatAfter, MaxFilterRows},
     ca : {0, 1, 3}, cb : {0, 2}, pa : {0, 1, 3}, pb : {0, 2},
     raises20 : BOOLEAN, raises10 : BOOLEAN]

ArgCalls == PatternFrame(arg.n, arg.rep, arg.ca, arg.cb)
ArgPuts == PatternFrame(arg.n, arg.rep, arg.pa, arg.pb)

InitFilter ==
    /\ Idle
    /\ arg \in FilterInputs
    /\ ret = Pending

CallFilter ==
    /\ ret = Pending
    /\ LET top20 == top20_union(ArgCalls, ArgPuts, arg.raises20)
       IN  ret' = [top20_union |-> top20,
                   top10_union |-> top10_union(ArgCalls, ArgPuts, top20, arg.raises10)]
    /\ UNCHANGED <<app, arg>>

SpecFilter == InitFilter /\ [][CallFilter]_vars

\* C4: the union of the top 20 strikes by volume of each side holds every
\* strike of the union of the top 10 of each side, on the fallback paths too.
C4_Top20CoversTop10 ==
    ret # Pending => Range(ret.top10_union) \subseteq Range(ret.top20_union)

C4_Witness ==
    /\ ret # Pending
    /\ ~arg.raises20 /\ ~arg.raises10
    /\ arg.n > Top20
    /\ Range(ret.top10_union) # Range(ret.top20_union)
    /\ Range(ret.top20_union) # Strikes(ArgCalls)
    /\ \E i, j \in 1..arg.n :
          /\ ArgCalls[i].Volume = ArgCalls[j].Volume
          /\ ArgCalls[i].Strike \in Range(ret.top10_union)
          /\ ArgCalls[j].Strike \notin Range(ret.top20_union)

-----------------------------------------------------------------------------
(* The dashboard: two browser sessions run main() against one history file. *)

MaxClock == 3

\* one option-chain entry i of n: volume falls with i on both sides
ChainEntry(i, n, profile) ==
    LET callOI == CASE profile = "zero" -> 0
                    [] profile = "tail" -> IF i > Top10 THEN 1 ELSE 0
                    [] OTHER -> 2
        putOI  == CASE profile = "zero" -> 0
                    [] profile = "heavy" -> 3
                    [] OTHER -> 1
    IN  Entry(IntVal((100 + i) * PriceScale),
              Side("dict", IntVal(7), IntVal(n - i), IntVal(callOI), Missing,
                   IntVal(3), IntVal(8)),
              Side("dict", IntVal(7), IntVal(n - i), Missing, IntVal(putOI),
                   IntVal(1), IntVal(0)))

Chain(n, profile) ==
    [Doc("dict", DataList([i \in 1..n |-> ChainEntry(i, n, profile)]), DataOther("missing"))
        EXCEPT !.underlyingValue = IntVal(100 * PriceScale)]

\* what the exchange may answer: chains, a document without data, and a
\* chain with a null totalSellQuantity
Responses ==
    {Chain(1, "zero"), Chain(1, "heavy"), Chain(Top20 + 2, "tail"), Chain(Top20 + 2, "heavy")}
    \cup {Doc("missing", DataOther("missing"), DataOther("missing"))}
    \cup {Doc("dict", DataList(<<Entry(IntVal(100 * PriceScale), NoSide,
               Side("dict", IntVal(7), IntVal(4), IntVal(2), Missing, IntVal(3), Null))>>),
              DataOther("missing"))}

Symbols == {"", "NIFTY"}

\* main_until_pcr on every input of the model
UntilPcr ==
    [symbol \in Symbols, fetched \in {"raised", "ok"}, raw \in Responses |->
        main_until_pcr(symbol, fetched, raw)]

\* a history file left by an earlier process
OldFile == File(to_csv(<<[timestamp |-> isoformat(0), pcr_top10 |-> Float(1, 2)]>>))

Init ==
    /\ pc = [s \in Sessions |-> "idle"]
    /\ frame = [s \in Sessions |-> NoFrame]
    /\ screen = [s \in Sessions |-> <<>>]
    /\ attempts = [s \in Sessions |-> 0]
    /\ file \in {NoFile, OldFile}
    /\ cache = NoDoc
    /\ now = 1
    /\ arg = NoDoc
    /\ ret = Pending

\* lines 99-178: a script run starts (a page load or the 60 s refresh) and
\* runs up to the history update; get_option_chain answers from its cache
\* when it holds an entry (line 13)
Run(s) ==
    /\ pc[s] \in {"idle", "done"}
    /\ now < MaxClock
    /\ \E symbol \in Symbols, answer \in Responses \cup {NoDoc} :
          LET hit == cache # NoDoc
              fetched == IF ~hit /\ answer = NoDoc THEN "raised" ELSE "ok"
              raw == IF hit THEN cache ELSE answer
              r == UntilPcr[symbol, fetched, IF fetched = "raised" THEN NoFrame.raw ELSE raw]
          IN  /\ pc' = [pc EXCEPT ![s] = r.pc]
              /\ frame' = [frame EXCEPT ![s] = r.frame]
              /\ screen' = [screen EXCEPT ![s] = r.screen]
              /\ attempts' = [attempts EXCEPT ![s] = r.attempts]
              /\ cache' = IF symbol # "" /\ fetched = "ok" THEN raw ELSE cache
    /\ UNCHANGED <<file, now, arg, ret>>

\* line 13: the cached answer is older than ttl=60
ExpireCache ==
    /\ cache # NoDoc
    /\ cache' = NoDoc
    /\ UNCHANGED <<pc, frame, screen, attempts, file, now, arg, ret>>

\* lines 181-187 and 190: the entry and the read of the whole file
ReadHist(s) ==
    /\ pc[s] = "persist"
    /\ frame' = [frame EXCEPT ![s].df_hist = persist(file, frame[s].pcr_top10, now)]
    /\ pc' = [pc EXCEPT ![s] = IF frame[s].pcr_top10 # None THEN "write" ELSE "render"]
    /\ now' = IF frame[s].pcr_top10 # None THEN now + 1 ELSE now
    /\ UNCHANGED <<screen, attempts, file, cache, arg, ret>>

\* line 188: the rewrite of the whole file
WriteHist(s) ==
    /\ pc[s] = "write"
    /\ file' = File(to_csv(frame[s].df_hist))
    /\ pc' = [pc EXCEPT ![s] = "render"]
    /\ UNCHANGED <<frame, screen, attempts, cache, now, arg, ret>>

\* lines 192-237
Render(s) ==
    /\ pc[s] = "render"
    /\ screen' = [screen EXCEPT ![s] = screen[s] \o main_render(frame[s])]
    /\ pc' = [pc EXCEPT ![s] = "done"]
    /\ UNCHANGED <<frame, attempts, file, cache, now, arg, ret>>

Step(s) == Run(s) \/ ReadHist(s) \/ WriteHist(s) \/ Render(s)

Next == ExpireCache \/ \E s \in Sessions : Step(s)

\* sessions whose script runs may interleave
Spec == Init /\ [][Next]_vars

Resting(s) == pc[s] \in {"idle", "done"}

\* no other session is inside a script run
Alone(s) == \A t \in Sessions \ {s} : Resting(t)

RunSeq(s) == Alone(s) /\ Run(s)
ReadHistSeq(s) == Alone(s) /\ ReadHist(s)
WriteHistSeq(s) == Alone(s) /\ WriteHist(s)
RenderSeq(s) == Alone(s) /\ Render(s)

NextSeq ==
    \/ ExpireCache
    \/ \E s \in Sessions : RunSeq(s) \/ ReadHistSeq(s) \/ WriteHistSeq(s) \/ RenderSeq(s)

\* script runs executed one after the other
SpecSeq == Init /\ [][NextSeq]_vars

-----------------------------------------------------------------------------
(* The claims about the dashboard.                                          *)

\* the entries of the history log
History(f) == IF exists(f) THEN read_csv(f.lines) ELSE <<>>

Writes(s) == pc[s] = "write" /\ pc'[s] = "render"

FetchFailure(f) == f.symbol # "" /\ f.fetched = "raised"

\* for every answer of the exchange: whether parsing it raises, and whether
\* a parsed or top-20-filtered table is empty
ParseOutcome ==
    [raw \in Responses |->
        LET parsed == parse_into_dfs(raw)
            top20 == top20_union(parsed.calls, parsed.puts, FALSE)
        IN  [raised |-> parsed.raised,
             empty  |-> \/ parsed.calls = <<>> \/ parsed.puts = <<>>
                        \/ isin(parsed.calls, top20) = <<>>
                        \/ isin(parsed.puts, top20) = <<>>]]

EmptyData(f) ==
    /\ f.symbol # "" /\ f.fetched = "ok"
    /\ ~ParseOutcome[f.raw].raised
    /\ ParseOutcome[f.raw].empty

Widgets(page, kinds) == {i \in DOMAIN page : page[i].w \in kinds}

\* C8: a run that meets FetchFailure or EmptyData stops there: one error
\* message, different for the two, one call of the fetch, no metric, table
\* or chart, and the history file as it was.
C8_AbortedRunShowsOneError ==
    /\ [](\A s \in Sessions :
            (FetchFailure(frame[s]) \/ EmptyData(frame[s])) =>
                /\ pc[s] = "done"
                /\ Cardinality(Widgets(screen[s], {"error"})) = 1
                /\ \A i \in Widgets(screen[s], {"error"}) :
                      IF FetchFailure(frame[s])
                      THEN screen[s][i].text = FetchFailedMsg
                      ELSE screen[s][i].text \in {NoDataMsg, NoTop20Msg} \ {FetchFailedMsg}
                /\ attempts[s] = 1
                /\ Widgets(screen[s], {"metric", "caption", "dataframe", "pyplot"}) = {}
                /\ frame[s].df_hist = <<>>)
    /\ [][\A s \in Sessions :
            (FetchFailure(frame'[s]) \/ EmptyData(frame'[s])) /\ frame'[s] # frame[s]
                => file' = file]_vars

C8_Witness ==
    \E s, t \in Sessions :
        /\ pc[s] = "done" /\ FetchFailure(frame[s])
        /\ pc[t] = "done" /\ EmptyData(frame[t])
        /\ Len(screen[s]) = 1 /\ Len(screen[t]) = 1
        /\ Len(History(file)) >= 1

\* the run of main() with locals f passed the fetch and the EmptyData checks
Passed(f) ==
    /\ f.symbol # "" /\ f.fetched = "ok"
    /\ ~ParseOutcome[f.raw].raised
    /\ ~ParseOutcome[f.raw].empty

Shown(page, widget) == \E i \in DOMAIN page : page[i] = widget

\* C9: in a run that passed the fetch and EmptyData checks every metric is
\* on the page, as "N/A" when it is unavailable, with both top-5 tables of
\* the top-20 set and, when the log read is not empty, the chart.
C9_UnavailableMetricStillRenders ==
    \A s \in Sessions :
        (pc[s] = "done" /\ Passed(frame[s])) =>
            LET f == frame[s]
                mp == calculate_max_pain(f.df_calls_20, f.df_puts_20)
            IN  /\ Shown(screen[s], Metric("PCR (Top-20)",
                        IF f.pcr_top20 = None THEN NA ELSE Fmt2(f.pcr_top20)))
                /\ Shown(screen[s], Metric("PCR (Top-10)",
                        IF f.pcr_top10 = None THEN NA ELSE Fmt2(f.pcr_top10)))
                /\ Shown(screen[s], Metric("Max Pain Strike",
                        IF mp.t = "None" THEN NA ELSE Plain(mp.Strike)))
                /\ Shown(screen[s], Dataframe(nlargest(f.df_calls_20, Top5, "Volume")))
                /\ Shown(screen[s], Dataframe(nlargest(f.df_puts_20, Top5, "Volume")))
                /\ f.df_hist # <<>> => Widgets(screen[s], {"pyplot"}) # {}
                /\ Widgets(screen[s], {"error", "exception"}) = {}

C9_Witness ==
    \E s \in Sessions :
        /\ pc[s] = "done" /\ Passed(frame[s])
        /\ frame[s].pcr_top10 = None /\ frame[s].pcr_top20 # None
        /\ Shown(screen[s], Metric("PCR (Top-10)", NA))
        /\ Shown(screen[s], Metric("PCR (Top-20)", Fmt2(frame[s].pcr_top20)))
        /\ Len(frame[s].df_calls_20) = Top20
        /\ Widgets(screen[s], {"pyplot"}) # {}

Updated(s) ==
    pc[s] \in {"render", "done"} /\ frame[s].pcr_top10 # None /\ frame[s].df_hist # <<>>

====
